---------------------------- MODULE Spec2Model ----------------------------
(***************************************************************************)
(* simple-linkz: the persistence-and-authentication core.                  *)
(*   src/src/storage.js  the document store (data.json, read/write)        *)
(*   src/src/auth.js     passwords, session tokens, signed cookies         *)
(*   src/src/server.js   the API handlers (lines 273-1018) and the server  *)
(* Strings the code splits or compares character by character are          *)
(* sequences of one-character strings.                                     *)
(***************************************************************************)
EXTENDS Integers, Sequences, FiniteSets, TLC

VARIABLES
    paths,      \* file system: path -> inode (0: no such file)
    inodes,     \* file system: inode -> content
    server,     \* "starting" | "up" | "down" (died) | "stopped"
    slots,      \* the start() routine (slot 0) and the requests in flight
    now,        \* Date.now()
    ticks,      \* clock advances so far
    nextTok,    \* session tokens generated so far
    faults,     \* injected I/O failures so far
    hist,       \* history of completed operations (ghost)
    pf          \* harness of the pure functions

vars == <<paths, inodes, server, slots, now, ticks, nextTok, faults, hist, pf>>

(***************************************************************************)
(* Bounds of the model.                                                    *)
(***************************************************************************)
MaxStr == 4
MaxVal == 2
TokenWidth == 2
MaxConc == 2
MaxTokens == 2
MaxTicks == 2
MaxFaults == 1

(***************************************************************************)
(* Strings.                                                                *)
(***************************************************************************)
\* JavaScript's null where a string is expected.
Null == <<"null">>

Secrets == {"s1", "s2"}

\* The characters of the strings the harness enumerates.
PfChars == {"a", ".", "1", "8", "9"}

RECURSIVE StrsOfLen(_, _)
StrsOfLen(chars, n) ==
    IF n = 0 THEN {<<>>}
    ELSE {Append(s, c) : s \in StrsOfLen(chars, n - 1), c \in chars}

StrsUpTo(chars, n) == UNION {StrsOfLen(chars, k) : k \in 0..n}

HasChar(str, c) == \E i \in 1..Len(str) : str[i] = c

\* String.prototype.split(sep) for a one-character separator: the parts
\* between the separators, in order ("" splits to one empty part).
RECURSIVE Split(_, _)
Split(str, sep) ==
    IF ~HasChar(str, sep) THEN <<str>>
    ELSE LET i == CHOOSE k \in 1..Len(str) :
                      str[k] = sep /\ \A j \in 1..(k - 1) : str[j] # sep
         IN  <<SubSeq(str, 1, i - 1)>> \o Split(SubSeq(str, i + 1, Len(str)), sep)

(***************************************************************************)
(* auth.js: the cookie signer.  HMAC-SHA256 with hex digest is a keyed     *)
(* function without collisions on the value alphabet {a, b, ., =}: the     *)
(* digest names the key and spells the value in digest characters.         *)
(***************************************************************************)
SecretTag(secret) == IF secret = "s1" THEN "8" ELSE "9"

HexEnc(c) ==
    CASE c = "a" -> "1"
      [] c = "b" -> "2"
      [] c = "." -> "3"
      [] c = "=" -> "4"
      [] OTHER   -> c

Hmac(secret, value) ==
    <<SecretTag(secret)>> \o [i \in 1..Len(value) |-> HexEnc(value[i])]

SignCookie(value, secret) == value \o <<".">> \o Hmac(secret, value)

\* A verifyCookie that returns the value without comparing the signature.
VerifyCookieNoCompare(signedValue, secret) ==
    IF signedValue = Null \/ signedValue = <<>> THEN Null
    ELSE LET parts == Split(signedValue, ".")
         IN  IF Len(parts) # 2 THEN Null ELSE parts[1]

VerifyCookie(signedValue, secret) ==
    IF signedValue = Null \/ signedValue = <<>> THEN Null
    ELSE LET parts == Split(signedValue, ".")
         IN  IF Len(parts) # 2 THEN Null
             ELSE LET value == parts[1]
                      signature == parts[2]
                      expectedSignature == Hmac(secret, value)
                  IN  IF signature # expectedSignature THEN Null ELSE value


(***************************************************************************)
(* auth.js: passwords and sessions.                                        *)
(***************************************************************************)
\* 7 * 24 * 60 * 60 * 1000
SESSION_DURATION == 604800000

Salts == {"x"}

\* bcrypt.hash: a salted hash; the salt is drawn afresh by the caller.
HashPassword(password, salt) == [pw |-> password, salt |-> salt]

\* The JSON number 12345678 where the body should carry a string.
NumericPassword == "#12345678"

TypeOf(v) == IF v = NumericPassword THEN "number" ELSE "string"

\* A passwordHash that is null or missing.
NullHash == [isNull |-> TRUE]

\* bcrypt.compare: rejects ("Illegal arguments") unless both arguments are
\* strings, and else recomputes with the salt embedded in the hash; the
\* promise's outcome is "true", "false" or "throws".
VerifyPassword(password, hash) ==
    IF TypeOf(password) # "string" \/ hash = NullHash THEN "throws"
    ELSE IF HashPassword(password, hash.salt) = hash THEN "true"
    ELSE "false"

\* crypto.randomBytes(32).toString('hex'): the n-th token generated, all
\* distinct, TokenWidth characters wide.
RECURSIVE TokenDigits(_, _)
TokenDigits(n, w) ==
    IF w = 0 THEN <<>>
    ELSE Append(TokenDigits(n \div 2, w - 1), IF n % 2 = 0 THEN "a" ELSE "b")

GenerateSessionToken(n) == TokenDigits(n - 1, TokenWidth)

CreateSession(n, time) ==
    [token |-> GenerateSessionToken(n),
     session |-> [createdAt |-> time, expiresAt |-> time + SESSION_DURATION]]

\* sessions[token] of a token the table does not have: undefined.
NoSession == [missing |-> TRUE]

\* An isSessionValid for which the millisecond of expiry still counts.
IsSessionValidInclusive(session, time) ==
    IF session = NoSession \/ session.expiresAt = 0 THEN FALSE
    ELSE time <= session.expiresAt

\* time is Date.now(); !session.expiresAt holds of 0 and of a missing field.
IsSessionValid(session, time) ==
    IF session = NoSession \/ session.expiresAt = 0 THEN FALSE
    ELSE time < session.expiresAt

(***************************************************************************)
(* storage.js: the document and the two files.                             *)
(***************************************************************************)
NullUser == [isNull |-> TRUE]

NoSessions == [t \in {} |-> [createdAt |-> 0, expiresAt |-> 0]]

DEFAULT_PREFERENCES ==
    [layout |-> "grid", theme |-> "dark", accentColor |-> "blue",
     backgroundColor |-> "gray", pageTitle |-> "Simple Linkz"]

DEFAULT_DATA ==
    [sessionSecret |-> "null", user |-> NullUser,
     preferences |-> DEFAULT_PREFERENCES, links |-> <<>>,
     sessions |-> NoSessions]

\* Length of JSON.stringify(data, null, 2), up to a monotone measure: what
\* grows with the document.
SerLen(data) ==
    (IF data.user = NullUser THEN 0 ELSE 2)
    + Len(data.links) + Cardinality(DOMAIN data.sessions)

\* A file's content is the sequence of documents whose serializations it is
\* made of: <<>> an empty file, <<d>> the whole of d, <<d, e>> the whole of d
\* followed by the tail of the longer e.
\* write() of d's serialization at offset 0 of a file holding content.
WriteAt0(content, d) ==
    IF content = <<>> THEN <<d>>
    ELSE LET old == content[Len(content)]
         IN  IF SerLen(d) >= SerLen(old) THEN <<d>> ELSE <<d, old>>

\* JSON.parse of a file's content succeeds on one whole document only.
Parsable(content) == Len(content) = 1

FileExists(p, path) == p[path] # 0

\* readData: readFile + JSON.parse; throws when the file is missing or
\* does not parse.
CanRead(p, ino) == FileExists(p, "data") /\ Parsable(ino[p["data"]])

ReadData(p, ino) == ino[p["data"]][1]

(***************************************************************************)
(* server.js (the API): request inputs.                                    *)
(***************************************************************************)
\* String.prototype.length of the strings requests carry; "" also stands
\* for a field the request body does not have.
StrLen(str) ==
    CASE str = ""             -> 0
      [] str = "al"           -> 2
      [] str = "bob"          -> 3
      [] str = "alice"        -> 5
      [] str = "short"        -> 5
      [] str = "longenough1"  -> 11
      [] str = "otherpass99"  -> 11
      [] str = "My Links"     -> 8
      [] str = "Simple Linkz" -> 12
      [] OTHER                -> 51

\* new URL(url).protocol, "invalid" when the constructor throws.
UrlProtocol(url) ==
    CASE url = "http://a.example"  -> "http:"
      [] url = "https://b.example" -> "https:"
      [] url = "ftp://c.example"   -> "ftp:"
      [] OTHER                     -> "invalid"

Num(n) == [t |-> "number", n |-> n]
NotNum == [t |-> "string", n |-> 0]

Link(id, name, url, order) == [id |-> id, name |-> name, url |-> url, order |-> order]

\* The body's links: absent, not an array, or an array of items.
NoLinks == [kind |-> "undefined", items |-> <<>>]
LinksString == [kind |-> "string", items |-> <<>>]
LinksArray(items) == [kind |-> "array", items |-> items]

\* The body's preferences: absent or an object ("" is a missing field).
NoPreferences == [layout |-> "undefined", theme |-> "", accentColor |-> "",
                  backgroundColor |-> "", pageTitle |-> ""]

NoArg == [username |-> "", password |-> "", links |-> NoLinks,
          preferences |-> NoPreferences]

COOKIE_NAME == "session"

\* parseCookies(req)[COOKIE_NAME] for the header "session=<header>": a pair
\* is kept when splitting it at '=' gives exactly two parts.
ParseCookies(header) ==
    IF header = Null THEN Null
    ELSE IF Len(Split(header, "=")) # 1 THEN Null
    ELSE header

\* !signedSession
Falsy(str) == str = Null \/ str = <<>>

(***************************************************************************)
(* Responses.                                                              *)
(***************************************************************************)
NoResp == [status |-> 0, body |-> "", setCookie |-> Null]

\* sendJSON(res, status, body)
SendJSON(status, body) == [status |-> status, body |-> body, setCookie |-> Null]

\* res.writeHead(200, {'Set-Cookie': ...}) with the cookie's value
SendCookie(value) == [status |-> 200, body |-> "success", setCookie |-> value]

(***************************************************************************)
(* Requests: a handler is the list of its storage calls still to make      *)
(* (stages) and the file-system call the current one waits for (pc).  Each *)
(* await of the code is a step; what runs between two awaits is one step.  *)
(***************************************************************************)
\* Nothing has been answered yet.
NoHist ==
    [account |-> NoArg, issued |-> {}, loggedOut |-> {}, voided |-> {},
     again |-> FALSE, lost |-> FALSE]

\* The cookies issued, logged out and voided so far.
Era(h) ==
    [issued |-> {i.cookie : i \in h.issued}, loggedOut |-> h.loggedOut,
     voided |-> h.voided]

\* No import has arrived.
NoFound == [seen |-> FALSE, links |-> <<>>, preferences |-> NoPreferences]

\* era is the history when the request arrived, found the links and
\* preferences an import found stored when it arrived (ghosts).
IdleSlot ==
    [op |-> "idle", pc |-> "idle", cookie |-> Null, arg |-> NoArg,
     era |-> Era(NoHist), found |-> NoFound,
     stages |-> <<>>, auth |-> "none", secret |-> "null", token |-> Null,
     session |-> [createdAt |-> 0, expiresAt |-> 0], sessions |-> NoSessions,
     newUser |-> NullUser, data |-> DEFAULT_DATA, fd |-> 0, resp |-> NoResp]

\* The handler has answered: its locals are gone.
Reply(req, resp) ==
    [IdleSlot EXCEPT !.op = req.op, !.pc = "done", !.cookie = req.cookie,
                     !.arg = req.arg, !.era = req.era, !.found = req.found,
                     !.auth = req.auth,
                     !.token = req.token, !.resp = resp]

AuthStages == <<"authSecret", "authSessions">>

\* A reset that clears the user and leaves the session table.
ResetStagesUserOnly == <<"setUser">>

\* A reset that clears the session table before the user.
ResetStagesSessionsFirst == <<"saveSessions", "setUser">>

\* handleResetCredentials: setUser(null, null), then saveSessions({})
ResetStages == <<"setUser", "saveSessions">>

SetterStages == {"setUser", "saveLinks", "savePreferences", "saveSessions"}

ProtectedOps == {"getLinks", "saveLinks", "getPreferences", "savePreferences",
                 "export", "import", "resetCredentials"}

(***************************************************************************)
(* server.js (the API): validation of request bodies.                      *)
(***************************************************************************)
\* The loop of handleSaveLinks over the links from the i-th on, ids being
\* the ids seen so far: "ok" or the error of the first link refused.
RECURSIVE ValidateLinksFrom(_, _, _)
ValidateLinksFrom(items, i, ids) ==
    IF i > Len(items) THEN "ok"
    ELSE LET link == items[i]
         IN  IF link.id = "" \/ link.name = "" \/ link.url = ""
                \/ link.order.t # "number"
             THEN "Invalid link format"
             ELSE IF link.id \in ids THEN "Duplicate link ID"
             ELSE IF link.order.n < 0 THEN "Order must be non-negative"
             ELSE IF UrlProtocol(link.url) = "invalid" THEN "Invalid URL"
             ELSE IF UrlProtocol(link.url) \notin {"http:", "https:"}
             THEN "URL must be HTTP or HTTPS"
             ELSE ValidateLinksFrom(items, i + 1, ids \cup {link.id})

ValidateLinks(links) ==
    IF links.kind # "array" THEN "Links must be an array"
    ELSE ValidateLinksFrom(links.items, 1, {})

validLayouts == {"grid", "list", "cards"}
validThemes == {"light", "dark"}
validColors == {"blue", "green", "purple", "red", "orange", "pink", "cyan", "yellow"}
validBackgrounds == {"white", "gray", "slate", "zinc"}

\* handleSavePreferences: "ok" or the error of the first check that fails.
ValidatePreferences(preferences) ==
    IF preferences.layout \notin validLayouts THEN "Invalid layout"
    ELSE IF preferences.theme \notin validThemes THEN "Invalid theme"
    ELSE IF preferences.accentColor \notin validColors THEN "Invalid accent color"
    ELSE IF preferences.backgroundColor \notin validBackgrounds
    THEN "Invalid background color"
    ELSE IF preferences.pageTitle = "" \/ StrLen(preferences.pageTitle) > 50
    THEN "Page title must be 1-50 characters"
    ELSE "ok"

\* handleImport's check of the body's preferences.
ImportPreferencesValid(preferences) ==
    ~ \/ preferences.layout \notin validLayouts
      \/ preferences.theme \notin validThemes
      \/ preferences.accentColor \notin validColors
      \/ (preferences.backgroundColor # ""
            /\ preferences.backgroundColor \notin validBackgrounds)
      \/ (preferences.pageTitle # ""
            /\ (StrLen(preferences.pageTitle) < 1
                  \/ StrLen(preferences.pageTitle) > 50))

(***************************************************************************)
(* server.js (the API): the handlers, from one await to the next.          *)
(***************************************************************************)
\* The response of a handler whose last storage call has returned.
FinalResponse(op) ==
    IF op \in {"logout", "resetCredentials"} THEN SendCookie(<<>>)
    ELSE SendJSON(200, "success")

\* The handler goes on with the storage calls in stages; "invalid
\* preferences" is handleImport's check between its two saves.
Continue(req, stages) ==
    IF stages = <<>> THEN Reply(req, FinalResponse(req.op))
    ELSE IF Head(stages) = "invalidPreferences"
    THEN Reply(req, SendJSON(400, "Invalid preferences"))
    ELSE [req EXCEPT !.stages = stages, !.pc = "read"]

\* A protected handler after isAuthenticated has returned true.
ProtectedBody(req) ==
    LET arg == req.arg
    IN  CASE req.op = "getLinks" -> Continue(req, <<"getLinks">>)
          [] req.op = "getPreferences" -> Continue(req, <<"getPreferences">>)
          [] req.op = "export" ->
                Continue(req, <<"exportLinks", "exportPreferences">>)
          [] req.op = "saveLinks" ->
                IF ValidateLinks(arg.links) # "ok"
                THEN Reply(req, SendJSON(400, ValidateLinks(arg.links)))
                ELSE Continue(req, <<"saveLinks">>)
          [] req.op = "savePreferences" ->
                IF arg.preferences.layout = "undefined"
                THEN Reply(req, SendJSON(500, "Internal server error"))
                ELSE IF ValidatePreferences(arg.preferences) # "ok"
                THEN Reply(req, SendJSON(400, ValidatePreferences(arg.preferences)))
                ELSE Continue(req, <<"savePreferences">>)
          [] req.op = "import" ->
                IF arg.links.kind = "string"
                THEN Reply(req, SendJSON(400, "Links must be an array"))
                ELSE Continue(req,
                        (IF arg.links.kind = "array" THEN <<"saveLinks">> ELSE <<>>)
                        \o (IF arg.preferences.layout = "undefined" THEN <<>>
                            ELSE IF ImportPreferencesValid(arg.preferences)
                            THEN <<"savePreferences">>
                            ELSE <<"invalidPreferences">>))
          [] OTHER ->
                Continue([req EXCEPT !.newUser = [username |-> "null",
                                                  passwordHash |-> NullHash],
                                     !.sessions = NoSessions],
                         ResetStages)

\* isAuthenticated before its first await: no cookie, no read.
BeginProtected(req) ==
    IF Falsy(ParseCookies(req.cookie))
    THEN Reply([req EXCEPT !.auth = "no"], SendJSON(401, "Unauthorized"))
    ELSE Continue(req, AuthStages)

\* A handler from the request to its first storage call.
Begin(req) ==
    LET arg == req.arg
    IN  CASE req.op \in ProtectedOps -> BeginProtected(req)
          [] req.op = "setupCheck" -> Continue(req, <<"setupCheck">>)
          [] req.op = "setup" ->
                IF arg.username = "" \/ StrLen(arg.username) < 3
                   \/ StrLen(arg.username) > 50
                THEN Reply(req, SendJSON(400, "Username must be 3-50 characters"))
                ELSE IF arg.password = "" \/ StrLen(arg.password) < 8
                THEN Reply(req, SendJSON(400, "Password must be at least 8 characters"))
                ELSE Continue(req, <<"setupGetUser", "setUser">>)
          [] req.op = "login" ->
                IF arg.username = "" \/ arg.password = ""
                THEN Reply(req, SendJSON(400, "Username and password required"))
                ELSE Continue(req, <<"loginGetUser", "loginGetSessions",
                                     "saveSessions", "loginGetSecret">>)
          [] OTHER ->
                IF Falsy(ParseCookies(req.cookie))
                THEN Reply(req, FinalResponse("logout"))
                ELSE Continue(req, <<"logoutGetSecret", "logoutGetSessions",
                                     "saveSessions">>)

\* A login that does not enter its session in the table.
WithSessionLost(sessions, token, session) == sessions

\* A login that renews every session of the table with its own.
WithSessionSliding(sessions, token, session) ==
    [t \in DOMAIN sessions \cup {token} |-> session]

\* sessions[token] = session
WithSession(sessions, token, session) ==
    [t \in DOMAIN sessions \cup {token} |->
        IF t = token THEN session ELSE sessions[t]]

\* A logout that leaves the entry in the table.
WithoutSessionKept(sessions, token) == sessions

\* delete sessions[token]
WithoutSession(sessions, token) ==
    [t \in DOMAIN sessions \ {token} |-> sessions[t]]

\* A setUser that stores its two arguments whatever they are.
SetUserAsGiven(data, username, passwordHash) ==
    [data EXCEPT !.user = [username |-> username, passwordHash |-> passwordHash]]

\* setUser(username, passwordHash) on the document as read ("null" is the
\* username null).
SetUser(data, username, passwordHash) ==
    IF username = "null" /\ passwordHash = NullHash
    THEN [data EXCEPT !.user = NullUser]
    ELSE [data EXCEPT !.user = [username |-> username, passwordHash |-> passwordHash]]

\* A setter that sets its field in a new document, not in the one read.
MutateFromDefaults(data, stage, req) ==
    CASE stage = "setUser" ->
            SetUser(DEFAULT_DATA, req.newUser.username, req.newUser.passwordHash)
      [] stage = "saveLinks" -> [DEFAULT_DATA EXCEPT !.links = req.arg.links.items]
      [] stage = "savePreferences" ->
            [DEFAULT_DATA EXCEPT !.preferences = req.arg.preferences]
      [] OTHER -> [DEFAULT_DATA EXCEPT !.sessions = req.sessions]

\* The read-modify of a setter of storage.js: data as read, one field set.
Mutate(data, stage, req) ==
    CASE stage = "setUser" ->
            SetUser(data, req.newUser.username, req.newUser.passwordHash)
      [] stage = "saveLinks" -> [data EXCEPT !.links = req.arg.links.items]
      [] stage = "savePreferences" -> [data EXCEPT !.preferences = req.arg.preferences]
      [] OTHER -> [data EXCEPT !.sessions = req.sessions]

\* An isAuthenticated that skips the expiry check.
AuthVerdictNoExpiry(sessions, token, time) == token \in DOMAIN sessions

\* isAuthenticated's last line: session && auth.isSessionValid(session)
AuthVerdict(sessions, token, time) ==
    LET session == IF token \in DOMAIN sessions THEN sessions[token] ELSE NoSession
    IN  session # NoSession /\ IsSessionValid(session, time)

\* isAuthenticated after getSessionSecret has returned.
AuthSecretRead(req, data) ==
    LET token == VerifyCookie(ParseCookies(req.cookie), data.sessionSecret)
    IN  IF Falsy(token)
        THEN Reply([req EXCEPT !.auth = "no"], SendJSON(401, "Unauthorized"))
        ELSE [req EXCEPT !.secret = data.sessionSecret, !.token = token,
                         !.stages = Tail(req.stages)]

\* A handler that goes on whatever isAuthenticated returns.
AuthSessionsReadIgnored(req, data, time) ==
    IF AuthVerdict(data.sessions, req.token, time)
    THEN ProtectedBody([req EXCEPT !.auth = "yes"])
    ELSE ProtectedBody([req EXCEPT !.auth = "no"])

\* An isAuthenticated that deletes the entry it finds no longer valid.
AuthSessionsReadEvicting(req, data, time) ==
    IF AuthVerdict(data.sessions, req.token, time)
    THEN ProtectedBody([req EXCEPT !.auth = "yes"])
    ELSE IF req.token \in DOMAIN data.sessions
    THEN Continue([req EXCEPT !.auth = "no",
                              !.sessions = WithoutSession(data.sessions, req.token)],
                  <<"saveSessions">>)
    ELSE Reply([req EXCEPT !.auth = "no"], SendJSON(401, "Unauthorized"))

\* isAuthenticated after getSessions has returned, and the handler's body.
AuthSessionsRead(req, data, time) ==
    IF AuthVerdict(data.sessions, req.token, time)
    THEN ProtectedBody([req EXCEPT !.auth = "yes"])
    ELSE Reply([req EXCEPT !.auth = "no"], SendJSON(401, "Unauthorized"))

\* A handleSetup that does not look for an existing user.
HandleSetupNoCheck(req, data, salt) ==
    Continue([req EXCEPT !.newUser =
                 [username |-> req.arg.username,
                  passwordHash |-> HashPassword(req.arg.password, salt)]],
             Tail(req.stages))

\* handleSetup after getUser has returned.
HandleSetup(req, data, salt) ==
    IF data.user # NullUser
    THEN Reply(req, SendJSON(400, "User already exists"))
    ELSE IF TypeOf(req.arg.password) # "string"
    THEN Reply(req, SendJSON(500, "Internal server error"))
    ELSE Continue([req EXCEPT !.newUser =
                      [username |-> req.arg.username,
                       passwordHash |-> HashPassword(req.arg.password, salt)]],
                  Tail(req.stages))

\* A handleLogin that sends the cookie before it has stored the session.
HandleLoginCookieFirst(req, stage, data, n, time) ==
    IF data.user = NullUser \/ data.user.username # req.arg.username
    THEN Reply(req, SendJSON(401, "Invalid credentials"))
    ELSE IF VerifyPassword(req.arg.password, data.user.passwordHash) = "throws"
    THEN Reply(req, SendJSON(500, "Internal server error"))
    ELSE IF VerifyPassword(req.arg.password, data.user.passwordHash) = "false"
    THEN Reply(req, SendJSON(401, "Invalid credentials"))
    ELSE LET created == CreateSession(n + 1, time)
         IN  Reply([req EXCEPT !.token = created.token],
                   SendCookie(SignCookie(created.token, data.sessionSecret)))

\* handleLogin after getUser, after getSessions and after getSessionSecret
\* have returned; n tokens were generated before.
HandleLogin(req, stage, data, n, time) ==
    CASE stage = "loginGetUser" ->
            IF data.user = NullUser \/ data.user.username # req.arg.username
            THEN Reply(req, SendJSON(401, "Invalid credentials"))
            ELSE IF VerifyPassword(req.arg.password, data.user.passwordHash) = "throws"
            THEN Reply(req, SendJSON(500, "Internal server error"))
            ELSE IF VerifyPassword(req.arg.password, data.user.passwordHash) = "false"
            THEN Reply(req, SendJSON(401, "Invalid credentials"))
            ELSE LET created == CreateSession(n + 1, time)
                 IN  Continue([req EXCEPT !.token = created.token,
                                          !.session = created.session],
                              Tail(req.stages))
      [] stage = "loginGetSessions" ->
            Continue([req EXCEPT !.sessions =
                         WithSession(data.sessions, req.token, req.session)],
                     Tail(req.stages))
      [] OTHER -> Reply(req, SendCookie(SignCookie(req.token, data.sessionSecret)))

\* handleLogout after getSessionSecret and after getSessions have returned.
HandleLogout(req, stage, data) ==
    IF stage = "logoutGetSecret"
    THEN LET token == VerifyCookie(ParseCookies(req.cookie), data.sessionSecret)
         IN  IF Falsy(token) THEN Reply(req, FinalResponse(req.op))
             ELSE Continue([req EXCEPT !.secret = data.sessionSecret,
                                       !.token = token],
                           Tail(req.stages))
    ELSE Continue([req EXCEPT !.sessions = WithoutSession(data.sessions, req.token)],
                  Tail(req.stages))

\* The handler of req after the read of its current storage call has
\* returned data.
OnRead(req, data, n, time, salt) ==
    LET stage == Head(req.stages)
    IN  CASE stage = "authSecret" -> AuthSecretRead(req, data)
          [] stage = "authSessions" -> AuthSessionsRead(req, data, time)
          [] stage = "setupCheck" ->
                Reply(req, SendJSON(200, IF data.user = NullUser
                                         THEN "needsSetup: true"
                                         ELSE "needsSetup: false"))
          [] stage = "setupGetUser" -> HandleSetup(req, data, salt)
          [] stage \in {"loginGetUser", "loginGetSessions", "loginGetSecret"} ->
                HandleLogin(req, stage, data, n, time)
          [] stage \in {"logoutGetSecret", "logoutGetSessions"} ->
                HandleLogout(req, stage, data)
          [] stage = "getLinks" -> Reply(req, SendJSON(200, "links"))
          [] stage = "getPreferences" -> Reply(req, SendJSON(200, "preferences"))
          [] stage = "exportLinks" -> Continue(req, Tail(req.stages))
          [] stage = "exportPreferences" -> Reply(req, SendJSON(200, "links, preferences"))
          [] OTHER -> [req EXCEPT !.data = Mutate(data, stage, req), !.pc = "open"]

\* An exception in the handler of req: isAuthenticated is awaited outside
\* the handlers' try, so its exceptions reach handleRequest; the others are
\* caught by the handler.
Throw(req) ==
    IF req.stages # <<>> /\ Head(req.stages) \in {"authSecret", "authSessions"}
    THEN Reply([req EXCEPT !.auth = "threw"], SendJSON(500, "Internal Server Error"))
    ELSE Reply(req, SendJSON(500, "Internal server error"))

(***************************************************************************)
(* The file system under data.json and data.json.tmp, and the process.     *)
(***************************************************************************)
ReqSlots == 1..MaxConc
Slots == 0..MaxConc
InodeIds == 1..(MaxConc + 3)

Busy(sl) == {r \in ReqSlots : sl[r].pc \notin {"idle", "done"}}

Referenced(p, sl) == {p["data"], p["tmp"]} \cup {sl[r].fd : r \in Slots}

\* The content of an inode neither a path nor a descriptor refers to is gone.
Gc(ino, p, sl) ==
    [i \in InodeIds |-> IF i \in Referenced(p, sl) THEN ino[i] ELSE <<>>]

\* No response waits to be sent.
Quiet == \A r \in ReqSlots : slots[r].pc # "done"

FreshInode(p, sl) ==
    CHOOSE i \in InodeIds \ Referenced(p, sl) :
        \A j \in InodeIds \ Referenced(p, sl) : i <= j

\* Inode numbers carry no meaning: after every step the inodes in use are
\* renumbered in the order data.json, data.json.tmp, the descriptors of the
\* slots.
Priority(i, p, sl) ==
    IF i = p["data"] THEN 0
    ELSE IF i = p["tmp"] THEN 1
    ELSE 2 + (CHOOSE r \in Slots :
                 sl[r].fd = i /\ \A q \in Slots : sl[q].fd = i => r <= q)

Renumber(i, p, sl) ==
    IF i = 0 THEN 0
    ELSE 1 + Cardinality({j \in Referenced(p, sl) \ {0} :
                             Priority(j, p, sl) < Priority(i, p, sl)})

\* The field of the document a setter of storage.js sets.
StageField(stage) ==
    CASE stage = "setUser" -> "user"
      [] stage = "saveLinks" -> "links"
      [] stage = "savePreferences" -> "preferences"
      [] OTHER -> "sessions"

\* The writeData of a setter commits (old is at its rename, new does not
\* answer with an error) over a document that holds, in a field the setter
\* does not set, another value than the one the setter has read.
StaleCommit(old, new) ==
    /\ old.pc = "rename" /\ old.stages # <<>>
    /\ Head(old.stages) \in SetterStages
    /\ ~(new.pc = "done" /\ new.resp.status = 500)
    /\ CanRead(paths, inodes)
    /\ \E f \in DOMAIN DEFAULT_DATA \ {StageField(Head(old.stages))} :
          ReadData(paths, inodes)[f] # old.data[f]

\* The ghost record of what has been answered so far: the credentials of
\* the account set up, until a reset is let through; the cookies the logins
\* answered with, their tokens and expiry; the cookies logged out after they
\* were issued; the cookies issued before a reset that was answered; whether
\* an initializeData after an orderly stop has found data.json in place;
\* whether a setter has overwritten a change it had not read.
HistAfter(h, old, new) ==
    LET answered == new.pc = "done" /\ new.resp.status = 200
    IN  [account |->
            IF new.op = "setup" /\ answered THEN new.arg
            ELSE IF new.op = "resetCredentials" /\ new.auth = "yes" THEN NoArg
            ELSE h.account,
         issued |-> h.issued \cup
            (IF new.op = "login" /\ answered
             THEN {[token |-> new.token, cookie |-> new.resp.setCookie,
                    expiresAt |-> old.session.expiresAt]}
             ELSE {}),
         loggedOut |-> h.loggedOut \cup
            (IF new.op = "logout" /\ answered /\ new.cookie \in old.era.issued
             THEN {new.cookie} ELSE {}),
         voided |-> h.voided \cup
            (IF new.op = "resetCredentials" /\ answered
             THEN {i.cookie : i \in h.issued} ELSE {}),
         again |-> h.again \/ (new.op = "reinit" /\ old.pc = "access"
                                                 /\ new.pc = "done"),
         lost |-> h.lost \/ StaleCommit(old, new)]

SysUnchanged == UNCHANGED <<now, ticks, faults, pf>>

\* The slot r goes from old to new; the process is up unless start() failed.
Settle(r, new, p, ino) ==
    LET sl == [slots EXCEPT ![r] = IF r = 0 /\ new.pc = "done" THEN IdleSlot ELSE new]
    IN  /\ slots' = [q \in Slots |-> [sl[q] EXCEPT !.fd = Renumber(@, p, sl)]]
        /\ paths' = [f \in DOMAIN p |-> Renumber(p[f], p, sl)]
        /\ inodes' = [k \in InodeIds |->
                        IF \E i \in Referenced(p, sl) \ {0} : Renumber(i, p, sl) = k
                        THEN ino[CHOOSE i \in Referenced(p, sl) \ {0} :
                                    Renumber(i, p, sl) = k]
                        ELSE <<>>]
        /\ hist' = HistAfter(hist, slots[r], new)
        /\ server' = IF r = 0 /\ new.pc = "done"
                     THEN (IF new.resp.status = 500 THEN "down" ELSE "up")
                     ELSE server

\* An initializeData that writes a new document whatever it finds.
InitializeDataAnew(secrets) ==
    /\ server = "starting"
    /\ slots[0].pc = "access"
    /\ \E secret \in secrets :
          Settle(0,
                 [slots[0] EXCEPT !.pc = "open", !.stages = <<"writeData">>,
                    !.data = [DEFAULT_DATA EXCEPT !.sessionSecret = secret]],
                 paths, inodes)
    /\ UNCHANGED nextTok
    /\ SysUnchanged

\* start(): initializeData up to its first write, or to its end when
\* data.json is there (fs.access succeeds).
InitializeData(secrets) ==
    /\ server = "starting"
    /\ slots[0].pc = "access"
    /\ \E secret \in secrets :
          Settle(0,
                 IF FileExists(paths, "data") THEN Reply(slots[0], NoResp)
                 ELSE [slots[0] EXCEPT !.pc = "open", !.stages = <<"writeData">>,
                          !.data = [DEFAULT_DATA EXCEPT !.sessionSecret = secret]],
                 paths, inodes)
    /\ UNCHANGED nextTok
    /\ SysUnchanged

\* fs.readFile(DATA_FILE) of a storage call returns and parses.  The read
\* is one step: open, read and close of the file are not told apart.
ReadStep(r) ==
    /\ Quiet
    /\ slots[r].pc = "read"
    /\ CanRead(paths, inodes)
    /\ \E salt \in Salts :
         LET new == OnRead(slots[r], ReadData(paths, inodes), nextTok, now, salt)
         IN  /\ Settle(r, new, paths, inodes)
             /\ nextTok' = IF Head(slots[r].stages) = "loginGetUser" /\ new.pc # "done"
                           THEN nextTok + 1 ELSE nextTok
    /\ SysUnchanged

\* readData throws: data.json is missing or does not parse.
ReadThrow(r) ==
    /\ Quiet
    /\ slots[r].pc = "read"
    /\ ~CanRead(paths, inodes)
    /\ Settle(r, Throw(slots[r]), paths, inodes)
    /\ UNCHANGED nextTok
    /\ SysUnchanged

\* A writeData that writes data.json in place.
OpenStepInPlace(r) ==
    /\ Quiet
    /\ slots[r].pc = "open"
    /\ LET fd == IF FileExists(paths, "data") THEN paths["data"]
                 ELSE FreshInode(paths, slots)
       IN  Settle(r, [slots[r] EXCEPT !.pc = "write", !.fd = fd],
                  [paths EXCEPT !["tmp"] = fd],
                  [inodes EXCEPT ![fd] = <<>>])
    /\ UNCHANGED nextTok
    /\ SysUnchanged

\* fs.writeFile(tempFile): the file is opened for writing, created when it
\* is not there and truncated when it is.
OpenStep(r) ==
    /\ Quiet
    /\ slots[r].pc = "open"
    /\ LET fd == IF FileExists(paths, "tmp") THEN paths["tmp"]
                 ELSE FreshInode(paths, slots)
       IN  Settle(r, [slots[r] EXCEPT !.pc = "write", !.fd = fd],
                  [paths EXCEPT !["tmp"] = fd],
                  [inodes EXCEPT ![fd] = <<>>])
    /\ UNCHANGED nextTok
    /\ SysUnchanged

\* fs.writeFile(tempFile): the serialization is written at the start of the
\* open file, which is then closed.
WriteStep(r) ==
    /\ Quiet
    /\ slots[r].pc = "write"
    /\ LET fd == slots[r].fd
       IN  Settle(r, [slots[r] EXCEPT !.pc = "rename", !.fd = 0],
                  paths,
                  [inodes EXCEPT ![fd] = WriteAt0(inodes[fd], slots[r].data)])
    /\ UNCHANGED nextTok
    /\ SysUnchanged

\* A writeData that refuses to replace a document that is no longer the
\* one its caller has read.
RenameStepChecked(r) ==
    /\ Quiet
    /\ slots[r].pc = "rename"
    /\ FileExists(paths, "tmp")
    /\ IF StaleCommit(slots[r], slots[r])
       THEN Settle(r, Throw(slots[r]), paths, inodes)
       ELSE Settle(r, Continue(slots[r], Tail(slots[r].stages)),
                   [data |-> paths["tmp"], tmp |-> 0], inodes)
    /\ UNCHANGED nextTok
    /\ SysUnchanged

\* fs.rename(tempFile, DATA_FILE), and the handler up to its next storage
\* call.
RenameStep(r) ==
    /\ Quiet
    /\ slots[r].pc = "rename"
    /\ FileExists(paths, "tmp")
    /\ Settle(r, Continue(slots[r], Tail(slots[r].stages)),
              [data |-> paths["tmp"], tmp |-> 0], inodes)
    /\ UNCHANGED nextTok
    /\ SysUnchanged

\* fs.rename fails with ENOENT: another writeData has renamed the file.
RenameThrow(r) ==
    /\ Quiet
    /\ slots[r].pc = "rename"
    /\ ~FileExists(paths, "tmp")
    /\ Settle(r, Throw(slots[r]), paths, inodes)
    /\ UNCHANGED nextTok
    /\ SysUnchanged

\* An I/O error of the environment in the file-system call slot r waits
\* for.  A write that fails may leave a prefix of the serialization in the
\* temporary file, which no reader parses and any later write covers, as
\* for the empty file the model leaves.
Fault(r) ==
    /\ Quiet
    /\ slots[r].pc \in {"read", "open", "write", "rename"}
    /\ faults < MaxFaults
    /\ faults' = faults + 1
    /\ Settle(r, Throw([slots[r] EXCEPT !.fd = 0]), paths, inodes)
    /\ UNCHANGED <<now, ticks, nextTok, pf>>

\* fs.mkdir or fs.access fails for another reason than a missing file:
\* initializeData's catch takes every error for "file doesn't exist".
AccessFault(secrets) ==
    /\ server = "starting"
    /\ slots[0].pc = "access"
    /\ faults < MaxFaults
    /\ faults' = faults + 1
    /\ \E secret \in secrets :
          Settle(0,
                 [slots[0] EXCEPT !.pc = "open", !.stages = <<"writeData">>,
                    !.data = [DEFAULT_DATA EXCEPT !.sessionSecret = secret]],
                 paths, inodes)
    /\ UNCHANGED <<now, ticks, nextTok, pf>>

\* The process is stopped while it serves no request.
Stop ==
    /\ server = "up"
    /\ \A r \in ReqSlots : slots[r].pc = "idle"
    /\ server' = "stopped"
    /\ UNCHANGED <<paths, inodes, slots, now, ticks, nextTok, faults, hist, pf>>

\* The process dies: the requests in flight are gone, the files stay.
Crash ==
    /\ server \in {"starting", "up"}
    /\ \A r \in ReqSlots : slots[r].pc # "done"
    /\ faults < MaxFaults
    /\ faults' = faults + 1
    /\ server' = "down"
    /\ slots' = [r \in Slots |-> IdleSlot]
    /\ inodes' = Gc(inodes, paths, [r \in Slots |-> IdleSlot])
    /\ UNCHANGED <<paths, now, ticks, nextTok, hist, pf>>

\* node src/server.js
Restart ==
    /\ server \in {"down", "stopped"}
    /\ server' = "starting"
    /\ slots' = [slots EXCEPT ![0] =
                    [IdleSlot EXCEPT !.op = IF server = "stopped" THEN "reinit"
                                           ELSE "init",
                                     !.pc = "access"]]
    /\ UNCHANGED <<paths, inodes, now, ticks, nextTok, faults, hist, pf>>

\* The response of slot r has been sent and its connection is closed.  A
\* response is sent before anything else happens: sending it changes
\* nothing the other steps read.
Close(r) ==
    /\ slots[r].pc = "done"
    /\ slots' = [slots EXCEPT ![r] = IdleSlot]
    /\ UNCHANGED <<paths, inodes, server, now, ticks, nextTok, faults, hist, pf>>

\* Time passes: to the last millisecond before the expiry of a session
\* created now, then to the millisecond of its expiry.
Tick ==
    /\ ticks < MaxTicks
    /\ Quiet
    /\ ticks' = ticks + 1
    /\ now' = now + (IF ticks % 2 = 0 THEN SESSION_DURATION - 1 ELSE 1)
    /\ UNCHANGED <<paths, inodes, server, slots, nextTok, faults, hist, pf>>

\* A request arrives while at most limit - 1 others are in flight.
\* The links and preferences stored when an import arrives.
Found(op, p, ino) ==
    IF op = "import" /\ CanRead(p, ino)
    THEN [seen |-> TRUE, links |-> ReadData(p, ino).links,
          preferences |-> ReadData(p, ino).preferences]
    ELSE NoFound

Request(r, limit, op, cookie, arg) ==
    /\ server = "up"
    /\ Cardinality(Busy(slots)) < limit
    /\ Quiet
    /\ slots[r].pc = "idle"
    /\ \A q \in ReqSlots : slots[q].pc = "idle" => r <= q
    /\ op = "login" =>
          nextTok + Cardinality({q \in Busy(slots) : slots[q].op = "login"}) < MaxTokens
    /\ Settle(r, Begin([IdleSlot EXCEPT !.op = op, !.cookie = cookie, !.arg = arg,
                                         !.era = Era(hist),
                                         !.found = Found(op, paths, inodes)]),
              paths, inodes)
    /\ UNCHANGED nextTok
    /\ SysUnchanged

(***************************************************************************)
(* The requests of the model.                                              *)
(***************************************************************************)
TokenInputs == {GenerateSessionToken(n) : n \in 1..MaxTokens}

\* The cookie with its i-th character changed.
AlterAt(cookie, i) ==
    [cookie EXCEPT ![i] = IF @ = "1" THEN "2" ELSE "1"]

\* Every cookie with one character of its signature changed.
Tampered(cookie) ==
    {AlterAt(cookie, i) : i \in (Len(cookie) - TokenWidth)..Len(cookie)}

SignedCookies == {SignCookie(t, s) : t \in TokenInputs, s \in Secrets}

OddCookies ==
    {Null, <<>>, GenerateSessionToken(1),
     SignCookie(<<>>, "s1"), SignCookie(<<"a", "=">>, "s1"),
     SignCookie(GenerateSessionToken(1), "s1") \o <<".", "1">>}

CookieInputs ==
    SignedCookies \cup OddCookies
    \cup UNION {Tampered(SignCookie(GenerateSessionToken(1), s)) : s \in Secrets}

SetupArgs ==
    {[NoArg EXCEPT !.username = u, !.password = pw] :
        u \in {"al", "alice", "bob"}, pw \in {"short", "longenough1"}}

LoginArgs ==
    {[NoArg EXCEPT !.username = u, !.password = pw] :
        u \in {"", "alice", "bob"},
        pw \in {"longenough1", "otherpass99", NumericPassword}}

GoodLink == Link("l1", "A", "http://a.example", Num(0))

LinksArgs ==
    {[NoArg EXCEPT !.links = l] :
        l \in {NoLinks, LinksString, LinksArray(<<>>), LinksArray(<<GoodLink>>),
               LinksArray(<<GoodLink, GoodLink>>),
               LinksArray(<<Link("l2", "B", "ftp://c.example", Num(1))>>)}}

MyPreferences ==
    [layout |-> "list", theme |-> "light", accentColor |-> "green",
     backgroundColor |-> "white", pageTitle |-> "My Links"]

PreferencesArgs ==
    {[NoArg EXCEPT !.preferences = pr] :
        pr \in {NoPreferences, MyPreferences,
                [MyPreferences EXCEPT !.theme = "neon"]}}

ImportArgs ==
    {[NoArg EXCEPT !.links = l, !.preferences = pr] :
        l \in {NoLinks, LinksString, LinksArray(<<GoodLink>>)},
        pr \in {NoPreferences, MyPreferences,
                [MyPreferences EXCEPT !.theme = "neon"]}}

ArgsOf(op) ==
    CASE op = "setup" -> SetupArgs
      [] op = "login" -> LoginArgs
      [] op = "saveLinks" -> LinksArgs
      [] op = "savePreferences" -> PreferencesArgs
      [] op = "import" -> ImportArgs
      [] OTHER -> {NoArg}

CookiesOf(op) ==
    IF op \in {"setupCheck", "setup", "login"} THEN {Null}
    ELSE IF op = "getLinks" THEN CookieInputs
    ELSE SignedCookies
         \cup {Null, AlterAt(SignCookie(GenerateSessionToken(1), "s1"), TokenWidth + 2)}

AccountOps == {"setupCheck", "setup", "login", "logout", "resetCredentials", "getLinks"}

(***************************************************************************)
(* Specifications.                                                         *)
(***************************************************************************)
PfIdle == [phase |-> "idle", x |-> <<>>, s |-> "s1", v |-> <<>>,
           signed |-> <<>>, verified |-> Null, round |-> Null,
           session |-> NoSession, at |-> 0, valid |-> FALSE]

\* No data.json yet; node src/server.js has just been run.
SysInit ==
    /\ paths = [data |-> 0, tmp |-> 0]
    /\ inodes = [i \in InodeIds |-> <<>>]
    /\ server = "starting"
    /\ slots = [r \in Slots |->
                  IF r = 0 THEN [IdleSlot EXCEPT !.op = "init", !.pc = "access"]
                  ELSE IdleSlot]
    /\ now = 1
    /\ ticks = 0
    /\ nextTok = 0
    /\ faults = 0
    /\ hist = NoHist

Init == SysInit /\ pf = PfIdle

\* The steps of the requests in flight and of start().
Run ==
    \/ \E r \in Slots : ReadStep(r)
    \/ \E r \in Slots : OpenStep(r)
    \/ \E r \in Slots : WriteStep(r)
    \/ \E r \in Slots : RenameStep(r)
    \/ \E r \in ReqSlots : Close(r)

\* I/O errors and crashes of the environment.
Failures ==
    \/ \E r \in Slots : Fault(r)
    \/ AccessFault({"s1"})
    \/ Crash
    \/ Restart

\* The account endpoints, one request at a time.
AccountRequest ==
    \E r \in ReqSlots, op \in AccountOps :
        \E cookie \in CookiesOf(op), arg \in ArgsOf(op) :
            Request(r, 1, op, cookie, arg)

Next == InitializeData(Secrets) \/ Run \/ Tick \/ AccountRequest

Spec == Init /\ [][Next]_vars

\* One account, and the cookies of its sessions, sound and altered.
TheAccount == [NoArg EXCEPT !.username = "alice", !.password = "longenough1"]

FewCookies ==
    {Null, AlterAt(SignCookie(GenerateSessionToken(1), "s1"), TokenWidth + 2)}
    \cup {SignCookie(GenerateSessionToken(1), s) : s \in Secrets}

DataOps == {"getLinks", "saveLinks", "getPreferences", "savePreferences",
            "export", "import", "resetCredentials"}

\* Every data endpoint, setup and login, one request at a time.
DataRequest ==
    \/ \E r \in ReqSlots, op \in {"setup", "login"} :
          Request(r, 1, op, Null, TheAccount)
    \/ \E r \in ReqSlots, op \in DataOps :
          \E cookie \in FewCookies, arg \in ArgsOf(op) :
              Request(r, 1, op, cookie, arg)

NextFault == InitializeData({"s1"}) \/ Run \/ Failures \/ DataRequest

SpecFault == Init /\ [][NextFault]_vars

\* The cookie of the first login.
FirstCookie == SignCookie(GenerateSessionToken(1), "s1")

\* The same requests while nothing fails, and the clock.
\* An import of a link that POST /api/links refuses.
ImportRequest ==
    \E r \in ReqSlots, cookie \in FewCookies :
        Request(r, 1, "import", cookie,
                [NoArg EXCEPT !.links =
                    LinksArray(<<Link("l2", "B", "ftp://c.example", Num(1))>>)])

NextData ==
    InitializeData({"s1"}) \/ Run \/ Tick \/ DataRequest \/ ImportRequest

SpecData == Init /\ [][NextData]_vars

\* Every endpoint, one request at a time, the server stopped and started
\* again at will.
ApiCookies == {SignCookie(GenerateSessionToken(n), "s1") : n \in 1..MaxTokens}

ApiArgs ==
    {[NoArg EXCEPT !.links = LinksArray(<<GoodLink>>)],
     [NoArg EXCEPT !.preferences = MyPreferences],
     [NoArg EXCEPT !.links = LinksArray(<<GoodLink>>), !.preferences = MyPreferences]}

ApiRequest ==
    \/ \E r \in ReqSlots, op \in {"setup", "login"} :
          Request(r, 1, op, Null, TheAccount)
    \/ \E r \in ReqSlots, op \in {"getLinks", "logout", "resetCredentials"} :
          \E cookie \in ApiCookies : Request(r, 1, op, cookie, NoArg)
    \/ \E r \in ReqSlots, op \in {"saveLinks", "savePreferences", "import"} :
          \E cookie \in ApiCookies, arg \in ApiArgs \cap ArgsOf(op) :
              Request(r, 1, op, cookie, arg)

NextApi ==
    InitializeData({"s1"}) \/ Run \/ Tick \/ Stop \/ Restart \/ ApiRequest

SpecApi == Init /\ [][NextApi]_vars

\* Logins that overlap, and logouts and checks of the first session that
\* overlap them.
ConcRequest ==
    \/ \E r \in ReqSlots, op \in {"setupCheck", "setup"} :
          Request(r, 1, op, Null, TheAccount)
    \/ \E r \in ReqSlots :
          /\ \A q \in ReqSlots : slots[q].op \notin {"setupCheck", "setup"}
          /\ Request(r, MaxConc, "login", Null, TheAccount)
    \/ \E r \in ReqSlots, op \in {"logout", "getLinks"} :
          /\ \A q \in ReqSlots : slots[q].op \notin {"setupCheck", "setup"}
          /\ Request(r, MaxConc, op, FirstCookie, NoArg)

\* The errors that follow from overlapping writes.
Collisions ==
    \/ \E r \in ReqSlots : ReadThrow(r)
    \/ \E r \in ReqSlots : RenameThrow(r)

NextConc == InitializeData({"s1"}) \/ Run \/ Collisions \/ ConcRequest

SpecConc == Init /\ [][NextConc]_vars

\* No setup and no login is in flight.
SignedIn == \A q \in ReqSlots : slots[q].op \notin {"setup", "login"}

\* One setup and one login, then saves of links and of preferences that
\* overlap, under the cookie the login has answered with.
SettersRequest ==
    \/ \E r \in ReqSlots :
          hist.account = NoArg /\ Request(r, 1, "setup", Null, TheAccount)
    \/ \E r \in ReqSlots :
          hist.issued = {} /\ Request(r, 1, "login", Null, TheAccount)
    \/ \E r \in ReqSlots, op \in {"saveLinks", "savePreferences"} :
          \E cookie \in Era(hist).issued, arg \in ApiArgs \cap ArgsOf(op) :
              SignedIn /\ Request(r, MaxConc, op, cookie, arg)

NextSetters == InitializeData({"s1"}) \/ Run \/ Collisions \/ SettersRequest

SpecSetters == Init /\ [][NextSetters]_vars

\* A second account, for a setup that overlaps the setup of the first.
OtherAccount == [NoArg EXCEPT !.username = "bob", !.password = "longenough1"]

\* Setups of two accounts that overlap, and checks for an account.
SetupRace ==
    \/ \E r \in ReqSlots, account \in {TheAccount, OtherAccount} :
          Request(r, MaxConc, "setup", Null, account)
    \/ \E r \in ReqSlots : Request(r, MaxConc, "setupCheck", Null, NoArg)

NextSetups == InitializeData({"s1"}) \/ Run \/ Collisions \/ SetupRace

SpecSetups == Init /\ [][NextSetups]_vars

\* Logins, credential resets and checks that overlap at will; a cookie is
\* sent once a login has answered with it.
LoginRace ==
    \/ \E r \in ReqSlots : Request(r, 1, "setup", Null, TheAccount)
    \/ \E r \in ReqSlots :
          /\ \A q \in ReqSlots : slots[q].op # "setup"
          /\ Request(r, MaxConc, "login", Null, TheAccount)
    \/ \E r \in ReqSlots, op \in {"resetCredentials", "getLinks"} :
          \E cookie \in Era(hist).issued :
              /\ \A q \in ReqSlots : slots[q].op # "setup"
              /\ Request(r, MaxConc, op, cookie, NoArg)

NextLogins == InitializeData({"s1"}) \/ Run \/ Collisions \/ LoginRace

SpecLogins == Init /\ [][NextLogins]_vars



\* The characters of the values the harness signs.
ValChars == {"a", "b", "."}

\* The sessions isSessionValid is given: none, one without expiresAt, and
\* those created in the first milliseconds of the clock.
SessionInputs ==
    {NoSession, [createdAt |-> 1, expiresAt |-> 0]}
    \cup {CreateSession(1, T).session : T \in 1..2}

\* The times of the checks: around the expiry of those sessions, and later.
TimeInputs ==
    {T + d : T \in 1..2,
             d \in {0, SESSION_DURATION - 1, SESSION_DURATION, 2 * SESSION_DURATION}}

\* The cookie functions on their own (a cookie x as a client may send it, a
\* secret s, a value v to sign), or isSessionValid on its own.
InitPure ==
    /\ SysInit
    /\ \/ \E x \in StrsUpTo(PfChars, MaxStr) \cup {Null}, s \in Secrets,
             v \in StrsUpTo(ValChars, MaxVal) :
             pf = [PfIdle EXCEPT !.phase = "ready", !.x = x, !.s = s, !.v = v]
       \/ \E session \in SessionInputs, at \in TimeInputs :
             pf = [PfIdle EXCEPT !.phase = "session", !.session = session, !.at = at]

\* signCookie(v, s), verifyCookie(x, s) and verifyCookie(signCookie(v, s), s)
ApplyCookie ==
    /\ pf.phase = "ready"
    /\ pf' = [pf EXCEPT !.phase = "done",
                        !.signed = SignCookie(pf.v, pf.s),
                        !.verified = VerifyCookie(pf.x, pf.s),
                        !.round = VerifyCookie(SignCookie(pf.v, pf.s), pf.s)]
    /\ UNCHANGED <<paths, inodes, server, slots, now, ticks, nextTok, faults, hist>>

\* isSessionValid(session) at Date.now() = at
ApplySession ==
    /\ pf.phase = "session"
    /\ pf' = [pf EXCEPT !.phase = "judged",
                        !.valid = IsSessionValid(pf.session, pf.at)]
    /\ UNCHANGED <<paths, inodes, server, slots, now, ticks, nextTok, faults, hist>>

NextPure == ApplyCookie \/ ApplySession

SpecPure == InitPure /\ [][NextPure]_vars

(***************************************************************************)
(* Properties.                                                             *)
(***************************************************************************)
\* C2: verifyCookie(x, s) returns a value v exactly when x is
\* signCookie(v, s) for a v without '.', and null otherwise: what it
\* returns has no '.' and signs to x, a signed dotless value verifies to
\* itself, a signed value with a '.' verifies to null; signCookie(v, s) is
\* v, '.', and the HMAC of v under s.
VerifyCookieExact ==
    pf.phase = "done" =>
        /\ pf.signed = pf.v \o <<".">> \o Hmac(pf.s, pf.v)
        /\ pf.verified # Null =>
              /\ ~HasChar(pf.verified, ".")
              /\ pf.x = SignCookie(pf.verified, pf.s)
        /\ (\E k \in 0..Len(pf.x) :
               LET v == SubSeq(pf.x, 1, k)
               IN  ~HasChar(v, ".") /\ pf.x = SignCookie(v, pf.s))
           => pf.verified # Null
        /\ pf.round = IF HasChar(pf.v, ".") THEN Null ELSE pf.v

\* A cookie of the enumeration is accepted, and a signed value comes back.
VerifyCookieAccepts ==
    /\ pf.phase = "done"
    /\ pf.verified = <<"a">>
    /\ pf.round = <<"b", "a">>

\* The document of data.json.
Document == ReadData(paths, inodes)

\* The cookie is the signature, under the stored secret, of a token of the
\* session table whose session has not expired.
AuthCondition(cookie, data, time) ==
    /\ cookie # Null
    /\ \E t \in DOMAIN data.sessions :
          /\ cookie = SignCookie(t, data.sessionSecret)
          /\ time < data.sessions[t].expiresAt

\* Slot r's isAuthenticated returns in this step.
VerdictStep(r) ==
    /\ slots'[r].op \in ProtectedOps
    /\ slots[r].auth = "none"
    /\ slots'[r].auth # "none"

\* C1: whenever isAuthenticated returns, it returns true exactly when the
\* request carries a session cookie that verifyCookie accepts under the
\* stored secret, whose token is a key of the session table, and whose
\* session has now < expiresAt; in every other case it returns false.
AuthGateVerdict ==
    [][\A r \in ReqSlots :
          VerdictStep(r) =>
              /\ slots'[r].auth \in {"yes", "no"}
              /\ slots'[r].auth = "yes"
                    <=> AuthCondition(slots'[r].cookie, Document, now)]_vars

\* A request is let through after the clock has advanced, while its
\* session lasts.
AuthGateBothVerdicts ==
    /\ ticks > 0
    /\ slots[1].pc = "done" /\ slots[1].op = "getLinks"
    /\ slots[1].auth = "yes" /\ slots[1].resp.status = 200
    /\ Document.sessions # NoSessions


\* C3: once logout(cookie) has been answered for a cookie that a login
\* had issued, isAuthenticated(cookie) returns false in every request that
\* arrives afterwards: the cookie is the same, its token is out of the
\* session table.
LogoutIsFinal ==
    [][\A r \in ReqSlots :
          VerdictStep(r) /\ slots'[r].cookie \in slots[r].era.loggedOut
              => /\ slots'[r].auth = "no"
                 /\ slots'[r].token \notin DOMAIN Document.sessions]_vars

\* A request with a cookie that was issued and then logged out is refused
\* before the session would have expired.
LoggedOutRefused ==
    \E r \in ReqSlots : \E i \in hist.issued :
        /\ slots[r].op = "getLinks" /\ slots[r].pc = "done"
        /\ slots[r].cookie = i.cookie
        /\ slots[r].cookie \in slots[r].era.loggedOut
        /\ slots[r].auth = "no" /\ slots[r].resp.status = 401
        /\ now < i.expiresAt

\* Slot r's handler answers in this step.
AnswerStep(r, op) ==
    /\ slots[r].pc # "done"
    /\ slots'[r].pc = "done"
    /\ slots'[r].op = op

\* checkHasAccount is false until a createAccount has succeeded.
NoAccountAtFirst ==
    \A r \in ReqSlots :
        AnswerStep(r, "setupCheck") /\ hist.account = NoArg
            => slots'[r].resp = SendJSON(200, "needsSetup: true")

\* login with the credentials of the account created answers with the
\* cookie that signs a new token under the stored secret.
LoginSucceeds ==
    \A r \in ReqSlots :
        AnswerStep(r, "login") /\ hist.account # NoArg
                               /\ slots'[r].arg = hist.account
            => /\ slots'[r].token \notin {i.token : i \in hist.issued}
               /\ slots'[r].resp = SendCookie(SignCookie(slots'[r].token,
                                                         Document.sessionSecret))

\* isAuthenticated returns true in a request that arrives after the login
\* was answered and is checked before expiresAt, when the cookie has not
\* been logged out and no reset was answered since.
IssuedAuthenticates ==
    \A r \in ReqSlots : \A i \in hist.issued :
        /\ VerdictStep(r)
        /\ slots'[r].cookie = i.cookie
        /\ i.cookie \in slots[r].era.issued
        /\ now < i.expiresAt
        /\ i.cookie \notin hist.loggedOut
        /\ i.cookie \notin hist.voided
        => slots'[r].auth = "yes"

\* C4: from no document, checkHasAccount is false after initialize; once
\* createAccount(u, p) has succeeded, login(u, p) answers with a signed
\* cookie, and isAuthenticated on that cookie is true at every later check
\* before the session's expiresAt while neither a logout of the cookie nor
\* a credential reset has happened.
AccountLifecycle ==
    [][NoAccountAtFirst /\ LoginSucceeds /\ IssuedAuthenticates]_vars

\* The cookie of a login is let through in the last millisecond of its
\* session, after another cookie was logged out.
IssuedLetThrough ==
    \E r \in ReqSlots : \E i \in hist.issued :
        /\ slots[r].op = "getLinks" /\ slots[r].pc = "done"
        /\ slots[r].cookie = i.cookie
        /\ slots[r].cookie \in slots[r].era.issued
        /\ slots[r].auth = "yes" /\ slots[r].resp.status = 200
        /\ now = i.expiresAt - 1
        /\ hist.loggedOut # {}

\* C5 as stated: in every state, writeData calls overlapping or not, the
\* content of data.json is the complete serialization of one document, so
\* that no reader obtains a partial or blended one.
CanonicalFileWhole ==
    FileExists(paths, "data") => Parsable(inodes[paths["data"]])


\* What readData finds: no file, or the content of data.json.
Canonical ==
    IF FileExists(paths, "data") THEN <<inodes[paths["data"]]>> ELSE <<>>

\* Slot r's writeData has its rename done in this step.
WriteCommits(r) ==
    /\ slots[r].pc = "rename"
    /\ IF r = 0 THEN server' = "up"
       ELSE ~(slots'[r].pc = "done" /\ slots'[r].resp.status = 500)

\* Slot r's writeData fails in this step.
WriteFails(r) ==
    /\ slots[r].pc \in {"open", "write", "rename"}
    /\ IF r = 0 THEN server' = "down"
       ELSE slots'[r].pc = "done" /\ slots'[r].resp.status = 500

\* C6: what readData returns changes only when a writeData has its rename
\* done, and then to the document of that call: a writeData that fails
\* (writing the temporary file or renaming it) or is cut by a crash leaves
\* the document as it was before the call; the failure ends the handler with
\* the error answer (start() exits), and no step of the write follows.
FailedWriteKeepsDocument ==
    [][/\ Canonical' # Canonical =>
             \E r \in Slots : WriteCommits(r) /\ Canonical' = <<<<slots[r].data>>>>
       /\ \A r \in ReqSlots :
             WriteFails(r) =>
                 /\ Canonical' = Canonical
                 /\ slots'[r].resp = SendJSON(500, "Internal server error")
       /\ WriteFails(0) => Canonical' = Canonical /\ slots'[0].pc = "idle"
       /\ server' = "down" => Canonical' = Canonical]_vars

\* saveLinks has failed at its rename: the temporary file holds the new
\* document, data.json the one from before the call.
RenameFailedAfterWrite ==
    \E r \in ReqSlots :
        /\ slots[r].op = "saveLinks" /\ slots[r].pc = "done"
        /\ slots[r].auth = "yes" /\ slots[r].resp.status = 500
        /\ FileExists(paths, "tmp") /\ Parsable(inodes[paths["tmp"]])
        /\ inodes[paths["tmp"]][1].links = <<GoodLink>>
        /\ CanRead(paths, inodes) /\ Document.links = <<>>


\* handleSetup's validation of the body lets username and password through.
SetupValid(arg) ==
    /\ ~(arg.username = "" \/ StrLen(arg.username) < 3 \/ StrLen(arg.username) > 50)
    /\ ~(arg.password = "" \/ StrLen(arg.password) < 8)

\* C7 as stated: while an account exists, createAccount with any username
\* and password fails with the already-exists condition and leaves the
\* stored user unchanged.
SetupRefusedAsExisting ==
    [][\A r \in ReqSlots :
          AnswerStep(r, "setup") /\ Document.user # NullUser
              => /\ slots'[r].resp = SendJSON(400, "User already exists")
                 /\ Canonical' = Canonical]_vars

\* C7: while an account exists, createAccount never succeeds and leaves
\* the stored user unchanged; it fails with the already-exists condition
\* when username and password pass the validation of the body (3-50 and at
\* least 8 characters), and with the validation error otherwise.
SetupRefusedOnceValid ==
    [][\A r \in ReqSlots :
          AnswerStep(r, "setup") /\ Document.user # NullUser
              => /\ slots'[r].resp.status = 400
                 /\ SetupValid(slots'[r].arg)
                       <=> slots'[r].resp = SendJSON(400, "User already exists")
                 /\ Canonical' = Canonical]_vars

\* A second createAccount with another username has been refused as
\* existing; the first account is there.
SecondSetupRefused ==
    \E r \in ReqSlots :
        /\ slots[r].op = "setup" /\ slots[r].pc = "done"
        /\ slots[r].arg.username = "bob"
        /\ slots[r].resp = SendJSON(400, "User already exists")
        /\ Document.user # NullUser /\ Document.user.username = "alice"

\* C8: when a credential reset let through by the Auth Gate is answered
\* with success, no other request having overlapped it, the stored user is
\* absent and the session table is empty; afterwards isAuthenticated
\* returns false for every cookie issued before the reset.
ResetVoidsEverything ==
    [][/\ \A r \in ReqSlots :
             AnswerStep(r, "resetCredentials") /\ slots'[r].resp.status = 200
                 => /\ slots'[r].auth = "yes"
                    /\ Document'.user = NullUser
                    /\ Document'.sessions = NoSessions
       /\ \A r \in ReqSlots :
             VerdictStep(r) /\ slots'[r].cookie \in slots[r].era.voided
                 => slots'[r].auth = "no"]_vars

\* A cookie issued before a reset is refused after a new account was set
\* up and logged into.
VoidedRefused ==
    \E r \in ReqSlots :
        /\ slots[r].op = "getLinks" /\ slots[r].pc = "done"
        /\ slots[r].cookie \in slots[r].era.voided
        /\ slots[r].auth = "no" /\ slots[r].resp.status = 401
        /\ Document.user # NullUser
        /\ Document.sessions # NoSessions

\* C9 as stated: when a read of the document fails while isAuthenticated
\* evaluates a request, isAuthenticated returns false without raising, the
\* handler answers 401 as for an unauthenticated request, and the document
\* is left as it is.
AuthGateFailsClosed ==
    [][\A r \in ReqSlots :
          VerdictStep(r) /\ slots'[r].auth # "yes"
              => /\ slots'[r].auth = "no"
                 /\ slots'[r].resp = SendJSON(401, "Unauthorized")
                 /\ Canonical' = Canonical]_vars

\* C10: a request to GET or POST /api/links, GET or POST /api/preferences,
\* GET /api/export, POST /api/import or POST /api/reset-credentials whose
\* cookie does not authenticate is answered 401 with no links and no
\* preferences, and no step of it changes the document.
UnauthenticatedRefused ==
    [][\A r \in ReqSlots :
          /\ VerdictStep(r) /\ ~AuthCondition(slots'[r].cookie, Document, now)
                => /\ slots'[r].pc = "done"
                   /\ slots'[r].resp = SendJSON(401, "Unauthorized")
          /\ slots'[r].op \in ProtectedOps /\ slots'[r].auth # "yes"
                => Canonical' = Canonical]_vars

\* An import with links, under a cookie signed with another secret, has
\* been refused while a session is open; the links are not stored.
ImportRefused ==
    \E r \in ReqSlots :
        /\ slots[r].op = "import" /\ slots[r].pc = "done"
        /\ slots[r].cookie = SignCookie(GenerateSessionToken(1), "s2")
        /\ slots[r].arg.links = LinksArray(<<GoodLink>>)
        /\ slots[r].resp = SendJSON(401, "Unauthorized")
        /\ Document.sessions # NoSessions
        /\ Document.links = <<>>

\* C12: isSessionValid(session) is true exactly when the session exists
\* and now < session.expiresAt: a session created at T is valid at
\* T + 7d - 1 ms, and invalid at T + 7d and at every later time.
SessionExpiryExact ==
    pf.phase = "judged" =>
        /\ pf.valid <=> (pf.session # NoSession /\ pf.at < pf.session.expiresAt)
        /\ \A T \in 1..2 :
              pf.session = CreateSession(1, T).session =>
                  /\ pf.at = T + SESSION_DURATION - 1 => pf.valid
                  /\ pf.at >= T + SESSION_DURATION => ~pf.valid

\* A session created at 1 is found valid in its last millisecond.
SessionValidAtLastMs ==
    /\ pf.phase = "judged"
    /\ pf.session = CreateSession(1, 1).session
    /\ pf.at = SESSION_DURATION
    /\ pf.valid

\* The input is two non-empty parts with one '.' between them.
TwoNonEmptyParts(signedValue) ==
    LET parts == Split(signedValue, ".")
    IN  Len(parts) = 2 /\ parts[1] # <<>> /\ parts[2] # <<>>

\* C16 as stated: verifyCookie returns null for every input that is not
\* exactly two non-empty parts separated by '.': no '.', more than one '.',
\* an empty value part, or an empty signature part.
VerifyCookieRejectsMalformed ==
    pf.phase = "done" /\ ~TwoNonEmptyParts(pf.x) => pf.verified = Null

\* The login of slot r is answered in this step, for a username and a
\* password the body has, while an account is stored.
LoginAnswered(r) ==
    /\ AnswerStep(r, "login")
    /\ Document.user # NullUser
    /\ slots'[r].arg.username # "" /\ slots'[r].arg.password # ""

\* The password of the login is not the one the stored hash was made of.
WrongPassword(r) ==
    slots'[r].arg.password # Document.user.passwordHash.pw

\* C18 as stated: for a stored account, a login with a wrong username and
\* a login with the right username and a wrong password are both answered
\* 401 'Invalid credentials' with no cookie, and leave the document
\* unchanged.
LoginFailuresAlike ==
    [][\A r \in ReqSlots :
          /\ LoginAnswered(r)
          /\ \/ slots'[r].arg.username # Document.user.username
             \/ WrongPassword(r)
          => /\ slots'[r].resp = SendJSON(401, "Invalid credentials")
             /\ Canonical' = Canonical]_vars

\* C19 as stated: verifyPassword never raises, so a login with the
\* account's username and a password that does not match the stored hash
\* is answered with invalid credentials and never with a server error.
WrongPasswordNeverRaises ==
    [][\A r \in ReqSlots :
          /\ LoginAnswered(r)
          /\ slots'[r].arg.username = Document.user.username
          /\ WrongPassword(r)
          => /\ slots'[r].resp.status # 500
             /\ slots'[r].resp.body = "Invalid credentials"]_vars

\* C14: in every state of the persisted document, user is null or a record
\* of exactly username and passwordHash with both set; no sequence of
\* setups and resets stores a user with only one of them.
UserNullOrWhole ==
    CanRead(paths, inodes) =>
        \/ Document.user = NullUser
        \/ /\ DOMAIN Document.user = {"username", "passwordHash"}
           /\ Document.user.username \notin {"", "null"}
           /\ Document.user.passwordHash # NullHash
           /\ Document.user.passwordHash.pw # ""

\* An account is stored again after a reset has cleared the first one.
UserSetUpAfterReset ==
    /\ hist.voided # {}
    /\ CanRead(paths, inodes)
    /\ Document.user # NullUser
    /\ Document.user.username = "bob"

\* C20 as stated: in every state reached through POST /api/links and
\* POST /api/import, every stored link has id, name, url and a numeric
\* order, its url is a valid http or https URL, its order is not negative,
\* and the ids of the stored links are pairwise distinct.
StoredLinksValid ==
    CanRead(paths, inodes) => ValidateLinksFrom(Document.links, 1, {}) = "ok"

SessionExpiryFixed ==
    [][CanRead(paths, inodes) /\ CanRead(paths', inodes') =>
          /\ \A t \in DOMAIN Document'.sessions :
                Document'.sessions[t].expiresAt
                    = Document'.sessions[t].createdAt + SESSION_DURATION
          /\ \A t \in DOMAIN Document.sessions \cap DOMAIN Document'.sessions :
                Document'.sessions[t] = Document.sessions[t]
          /\ \A i \in hist.issued :
                i.token \in DOMAIN Document.sessions
                    => Document.sessions[i.token].expiresAt = i.expiresAt]_vars

\* Two sessions created at different times are in the table after links
\* were saved.
TwoSessionsKept ==
    /\ CanRead(paths, inodes)
    /\ Cardinality(DOMAIN Document.sessions) = 2
    /\ \E t, u \in DOMAIN Document.sessions :
          Document.sessions[t].expiresAt < Document.sessions[u].expiresAt
    /\ Document.links # <<>>

\* C13 as stated: the document has its secret from initialization on,
\* before any session is created, and no sequence or interleaving of
\* requests, and no repeated initialize, changes or removes it.
SecretSetOnce ==
    [][/\ server = "up" =>
             CanRead(paths, inodes) /\ Document.sessionSecret \in Secrets
       /\ CanRead(paths, inodes) =>
             /\ CanRead(paths', inodes')
             /\ Document'.sessionSecret = Document.sessionSecret]_vars

ResetIsTwoWrites ==
    [][\A r \in ReqSlots :
          /\ slots[r].op = "resetCredentials" /\ Len(slots[r].stages) = 2
          /\ slots[r].pc = "rename" /\ slots'[r].pc = "read"
          => /\ Document'.user = NullUser
             /\ Document'.sessions = Document.sessions
             /\ slots[r].token \in DOMAIN Document'.sessions
             /\ AuthCondition(slots[r].cookie, Document', now)
             /\ slots'[r].stages = <<"saveSessions">>]_vars

\* After a reset was cut between its two writes, the server is up on a
\* document without user whose session table still has the session, and a
\* request under the resetting cookie is let through.
HalfResetServes ==
    \E r \in ReqSlots :
        /\ server = "up" /\ faults > 0
        /\ slots[r].op = "getLinks" /\ slots[r].pc = "done"
        /\ slots[r].cookie = FirstCookie
        /\ slots[r].auth = "yes" /\ slots[r].resp.status = 200
        /\ Document.user = NullUser
        /\ Document.sessions # NoSessions

\* C23 as stated: once a logout of a cookie that a login had issued has been
\* answered, the cookie's token is never again a key of the session table
\* and isAuthenticated never again returns true for the cookie, also when a
\* login (or another writer) that read the document before the logout
\* writes its document after it.
LoggedOutStaysOut ==
    [][\A i \in hist.issued :
          i.cookie \in hist.loggedOut =>
              /\ CanRead(paths', inodes') => i.token \notin DOMAIN Document'.sessions
              /\ \A r \in ReqSlots :
                    VerdictStep(r) /\ slots'[r].cookie = i.cookie
                        => slots'[r].auth = "no"]_vars

\* C24 as stated: when two logins with the right credentials have both
\* answered success, overlapping or not, and nothing is in progress, the
\* tokens of both cookies are keys of the session table, and each of the
\* two cookies authenticates (no reset having been let through): no login
\* that reported success has its session missing from the table.
OverlappingLoginsKept ==
    [][\A i, j \in hist.issued :
          i # j /\ hist.account # NoArg /\ {i.cookie, j.cookie} \cap hist.voided = {} =>
              /\ Busy(slots) = {} /\ CanRead(paths, inodes)
                    => {i.token, j.token} \subseteq DOMAIN Document.sessions
              /\ \A r \in ReqSlots :
                    VerdictStep(r) /\ slots'[r].cookie = i.cookie
                        => slots'[r].auth = "yes"]_vars

\* C25 as stated: when setups overlap while no account exists, at most one
\* of them reports success, and the account of a setup that has reported
\* success is the stored one from then on: no other setup replaces it.
OneSetupSucceeds ==
    [][/\ \A r \in ReqSlots :
             AnswerStep(r, "setup") /\ slots'[r].resp.status = 200
                 => /\ hist.account = NoArg
                    /\ CanRead(paths', inodes') =>
                          /\ Document'.user # NullUser
                          /\ Document'.user.username = slots'[r].arg.username
       /\ hist.account # NoArg /\ CanRead(paths, inodes)
             /\ CanRead(paths', inodes')
             => Document'.user = Document.user]_vars

\* C26 as stated: when writeData calls overlap, no step of a call ends in
\* an error (no I/O fault is injected), and the rename of a call leaves in
\* data.json exactly the document of one of the calls in progress.
OverlappingWritesLand ==
    [][\A r \in ReqSlots :
          slots[r].pc \in {"open", "write", "rename"} /\ slots'[r] # slots[r]
          => /\ ~(slots'[r].pc = "done" /\ slots'[r].resp.status = 500)
             /\ slots[r].pc = "rename" =>
                   \E q \in ReqSlots :
                       /\ slots[q].pc \in {"open", "write", "rename"}
                       /\ Canonical' = <<<<slots[q].data>>>>]_vars

\* C27 as stated: in every state in which no operation is in progress, a
\* document without user has an empty session table, whatever the
\* interleaving of setups, logins and credential resets, a login that has
\* verified its password before a reset and writes its session after it
\* included.
NoAccountNoSessions ==
    Busy(slots) = {} /\ CanRead(paths, inodes) /\ Document.user = NullUser
        => Document.sessions = NoSessions

\* C28: a login sends a cookie only with its success answer, after its
\* credentials were verified against the stored user and after the write
\* that stores its token has completed, and the cookie is that token signed
\* under the stored secret; a login that ends at its credential check or at
\* its session write sets no cookie and leaves the document, and so the
\* session table, as it was.
LoginOrder ==
    [][\A r \in ReqSlots :
          AnswerStep(r, "login") =>
              /\ slots'[r].resp.setCookie # Null =>
                    /\ slots'[r].resp.status = 200
                    /\ slots[r].stages = <<"loginGetSecret">>
                    /\ CanRead(paths, inodes)
                    /\ Document.user # NullUser
                    /\ Document.user.username = slots'[r].arg.username
                    /\ VerifyPassword(slots'[r].arg.password,
                                      Document.user.passwordHash) = "true"
                    /\ slots[r].token \in DOMAIN Document.sessions
                    /\ Document.sessions[slots[r].token] = slots[r].session
                    /\ slots'[r].resp.setCookie
                          = SignCookie(slots[r].token, Document.sessionSecret)
              /\ slots[r].stages # <<"loginGetSecret">> =>
                    /\ slots'[r].resp.status # 200
                    /\ slots'[r].resp.setCookie = Null
                    /\ Canonical' = Canonical
                    /\ CanRead(paths', inodes') /\ slots[r].token # Null
                          => slots[r].token \notin DOMAIN Document'.sessions]_vars

\* A login has answered with its cookie, its session stored, after an
\* earlier login had passed its credential check and failed before its
\* session was stored: the token of that one is not in the table.
LoginAfterFailedLogin ==
    \E r \in ReqSlots :
        /\ slots[r].op = "login" /\ slots[r].pc = "done"
        /\ slots[r].resp = SendCookie(SignCookie(GenerateSessionToken(2), "s1"))
        /\ faults > 0 /\ hist.voided = {}
        /\ DOMAIN Document.sessions = {GenerateSessionToken(2)}

\* C29: an import answered 400 or 500 leaves the stored links and the
\* stored preferences as they were when the request arrived.
FailedImportKeeps ==
    \A r \in ReqSlots :
        /\ slots[r].op = "import" /\ slots[r].pc = "done"
        /\ slots[r].resp.status \in {400, 500}
        /\ slots[r].found.seen
        /\ CanRead(paths, inodes)
        => /\ Document.links = slots[r].found.links
           /\ Document.preferences = slots[r].found.preferences

\* C30: with requests one at a time, the write of a setter changes its own
\* field of the document and no other: setUser user, saveLinks links,
\* savePreferences preferences, saveSessions sessions, and none the secret;
\* saveLinks and savePreferences store the value given, and the write of a
\* logout removes the entry of the cookie's own token and leaves every
\* other entry of the table as it was.
SetterFrame ==
    [][\A r \in ReqSlots :
          /\ slots[r].pc = "rename" /\ slots'[r] # slots[r]
          /\ slots[r].stages # <<>> /\ Head(slots[r].stages) \in SetterStages
          => /\ CanRead(paths, inodes) /\ CanRead(paths', inodes')
             /\ \A f \in DOMAIN DEFAULT_DATA \ {StageField(Head(slots[r].stages))} :
                   Document'[f] = Document[f]
             /\ Document'.sessionSecret = Document.sessionSecret
             /\ Head(slots[r].stages) = "saveLinks"
                   => Document'.links = slots[r].arg.links.items
             /\ Head(slots[r].stages) = "savePreferences"
                   => Document'.preferences = slots[r].arg.preferences
             /\ slots[r].op = "logout" =>
                   /\ DOMAIN Document'.sessions
                         = DOMAIN Document.sessions \ {slots[r].token}
                   /\ \A t \in DOMAIN Document'.sessions :
                         Document'.sessions[t] = Document.sessions[t]]_vars

\* A logout has removed its own session from a table of two, and the other
\* session, the user, the links and the preferences stored are in place.
LogoutLeftTheRest ==
    \E r \in ReqSlots :
        /\ slots[r].op = "logout" /\ slots[r].pc = "done"
        /\ slots[r].resp = SendCookie(<<>>)
        /\ slots[r].token \in {i.token : i \in hist.issued}
        /\ Cardinality(hist.issued) = 2
        /\ CanRead(paths, inodes)
        /\ DOMAIN Document.sessions
              = {i.token : i \in hist.issued} \ {slots[r].token}
        /\ Document.user # NullUser
        /\ Document.links = <<GoodLink>>
        /\ Document.preferences = MyPreferences


=============================================================================
